---- MODULE Spec2Model ----
(***************************************************************************)
(* Model of app.py: the two request handlers generate() and                *)
(* post_to_twitter(), the JSON payloads they read, the exceptions they     *)
(* catch and the two external collaborators (OpenAI chat completion,       *)
(* Twitter update_status) they call.                                       *)
(*                                                                         *)
(* Text is a sequence of one-character strings.  A JSON value is a record  *)
(*   [t |-> type, s |-> characters, n |-> integer, f |-> has-fraction]     *)
(* with t one of "null", "str", "int", "float", "bool", "list".  For a     *)
(* float, n is the value truncated toward zero and f says whether a        *)
(* non-zero fractional part was cut; for a list, n is its length.          *)
(* A JSON object is a function from the keys it holds to JSON values.      *)
(***************************************************************************)
EXTENDS Integers, Sequences, FiniteSets, TLC

\* ------------------------------------------------------------------------
\* Bounds of the model
\* ------------------------------------------------------------------------
NumRequests == 2        \* requests in flight in the concurrent specification
MaxTextLen == 283       \* longest post text offered to post_to_twitter
MaxAge == 122           \* largest age offered to generate

\* ------------------------------------------------------------------------
\* Program constants
\* ------------------------------------------------------------------------
TweetLimit == 280       \* if len(post_text) > 280
TruncateAt == 277       \* post_text[:277]
AgeMin == 1             \* age_num < 1
AgeMax == 120           \* age_num > 120

\* ------------------------------------------------------------------------
\* JSON values as Python sees them
\* ------------------------------------------------------------------------
None == [t |-> "null", s |-> <<>>, n |-> 0, f |-> FALSE]
JStr(chars) == [t |-> "str", s |-> chars, n |-> 0, f |-> FALSE]
JInt(k) == [t |-> "int", s |-> <<>>, n |-> k, f |-> FALSE]
JFloat(k, frac) == [t |-> "float", s |-> <<>>, n |-> k, f |-> frac]
JBool(b) == [t |-> "bool", s |-> <<>>, n |-> IF b THEN 1 ELSE 0, f |-> FALSE]
JList(len) == [t |-> "list", s |-> <<>>, n |-> len, f |-> FALSE]

Whitespace == {" ", "\t", "\n"}
Digits == <<"0", "1", "2", "3", "4", "5", "6", "7", "8", "9">>
DigitChars == {Digits[i] : i \in 1..10}
DigitValue(c) == (CHOOSE i \in 1..10 : Digits[i] = c) - 1

\* dict.get(key): the value under the key, None when the key is absent
Get(data, key) == IF key \in DOMAIN data THEN data[key] ELSE None

\* Python truth value: bool(v)
Truthy(v) ==
    CASE v.t = "null" -> FALSE
      [] v.t = "str" -> Len(v.s) > 0
      [] v.t = "int" -> v.n # 0
      [] v.t = "float" -> v.n # 0 \/ v.f
      [] v.t = "bool" -> v.n = 1
      [] v.t = "list" -> v.n > 0

\* str.strip(): leading and trailing whitespace removed
Strip(chars) ==
    LET kept == {i \in 1..Len(chars) : chars[i] \notin Whitespace}
        first == CHOOSE i \in kept : \A j \in kept : i <= j
        last == CHOOSE i \in kept : \A j \in kept : i >= j
    IN  IF kept = {} THEN <<>> ELSE SubSeq(chars, first, last)

\* decimal digits of a natural number
RECURSIVE NatStr(_)
NatStr(k) == IF k < 10 THEN <<Digits[k + 1]>> ELSE NatStr(k \div 10) \o <<Digits[(k % 10) + 1]>>

IntStr(k) == IF k < 0 THEN <<"-">> \o NatStr(-k) ELSE NatStr(k)

RECURSIVE ListStr(_)
ListStr(len) == IF len = 0 THEN <<>> ELSE IF len = 1 THEN <<"1">> ELSE <<"1", ",", " ">> \o ListStr(len - 1)

\* str(v): the text Python prints for the value (list elements are all 1;
\* a float with a fraction prints its integer part and ".5")
PyStr(v) ==
    CASE v.t = "null" -> <<"N", "o", "n", "e">>
      [] v.t = "str" -> v.s
      [] v.t = "int" -> IntStr(v.n)
      [] v.t = "float" -> IntStr(v.n) \o <<".">> \o (IF v.f THEN <<"5">> ELSE <<"0">>)
      [] v.t = "bool" -> IF v.n = 1 THEN <<"T", "r", "u", "e">> ELSE <<"F", "a", "l", "s", "e">>
      [] v.t = "list" -> <<"[">> \o ListStr(v.n) \o <<"]">>

\* value of a non-empty run of decimal digits
RECURSIVE DigitsValue(_)
DigitsValue(chars) ==
    IF chars = <<>> THEN 0
    ELSE 10 * DigitsValue(SubSeq(chars, 1, Len(chars) - 1)) + DigitValue(chars[Len(chars)])

\* results of an evaluation that may raise
Ok(k) == [ok |-> TRUE, n |-> k, exc |-> "", msg |-> ""]
Raise(type, text) == [ok |-> FALSE, n |-> 0, exc |-> type, msg |-> text]

\* int(text): surrounding whitespace ignored, an optional sign, then digits
ParseInt(chars) ==
    LET body == Strip(chars)
        signed == body # <<>> /\ Head(body) \in {"+", "-"}
        digits == IF signed THEN Tail(body) ELSE body
    IN  IF digits # <<>> /\ \A i \in 1..Len(digits) : digits[i] \in DigitChars
        THEN Ok(IF signed /\ Head(body) = "-" THEN -DigitsValue(digits) ELSE DigitsValue(digits))
        ELSE Raise("ValueError", "invalid literal for int() with base 10")

\* int(v)
PyInt(v) ==
    CASE v.t = "str" -> ParseInt(v.s)
      [] v.t \in {"int", "float", "bool"} -> Ok(v.n)
      [] v.t \in {"null", "list"} ->
            Raise("TypeError", "int() argument must be a string, a bytes-like object or a real number")

\* exception classes and their base classes, up to Exception
ExcBase(type) ==
    CASE type \in {"RateLimitError", "APIConnectionError"} -> "APIError"
      [] type \in {"Forbidden", "TooManyRequests"} -> "TweepyException"
      [] type \in {"BadRequest", "UnsupportedMediaType"} -> "HTTPException"
      [] OTHER -> "Exception"

\* isinstance(e, base)
IsInstance(type, base) ==
    \/ type = base
    \/ ExcBase(type) = base
    \/ base = "Exception"

\* ------------------------------------------------------------------------
\* Requests, responses, handler results
\* ------------------------------------------------------------------------
RequiredFields == <<"age", "country", "state", "interests", "tone", "perspective", "hookline">>
FieldSet == {RequiredFields[i] : i \in 1..Len(RequiredFields)}

\* An HTTP request body: kind is "malformed" (not JSON), "wrongtype" (content
\* type is not JSON), "null", "scalar", "list" or "object"; data holds the
\* keys of an object and is empty otherwise.
Body(kind, data) == [kind |-> kind, data |-> data]
NoBody == Body("none", <<>>)

\* jsonify(...) with its status code; error is the message, in pieces
Response(status, success, error, prompt, post, tweet_id) ==
    [status |-> status, success |-> success, error |-> error,
     prompt |-> prompt, post |-> post, tweet_id |-> tweet_id]
Failure(status, error) == Response(status, FALSE, error, <<>>, <<>>, 0)

\* where a handler stands after a stretch of its code: it returned a
\* response, it is blocked in the collaborator call, or an exception is
\* propagating
Returned(resp) == [t |-> "return", resp |-> resp, arg |-> <<>>, exc |-> "", msg |-> ""]
Calling(arg) == [t |-> "call", resp |-> Failure(0, <<>>), arg |-> arg, exc |-> "", msg |-> ""]
Raised(type, text) == [t |-> "raise", resp |-> Failure(0, <<>>), arg |-> <<>>, exc |-> type, msg |-> text]

\* request.get_json(): the parsed body.  A body that is not JSON raises
\* BadRequest; a content type that is not JSON raises UnsupportedMediaType
\* when Flask is strict about the mimetype and yields None when it is not.
GetJson(body, strict) ==
    CASE body.kind = "malformed" ->
            Raised("BadRequest", "400 Bad Request: Failed to decode JSON object")
      [] body.kind = "wrongtype" ->
            IF strict
            THEN Raised("UnsupportedMediaType", "415 Unsupported Media Type")
            ELSE Returned(Failure(0, <<>>))
      [] OTHER -> Returned(Failure(0, <<>>))

DataIsNone(body) == body.kind \in {"wrongtype", "null"}

\* data.get on a JSON value that is not an object
NoGetAttribute(body) ==
    Raised("AttributeError",
           IF body.kind = "list" THEN "'list' object has no attribute 'get'"
                                 ELSE "'int' object has no attribute 'get'")

\* not data.get(field) or str(data.get(field)).strip() == ""
FieldMissing(data, field) ==
    \/ ~Truthy(Get(data, field))
    \/ Strip(PyStr(Get(data, field))) = <<>>

\* [field for field in required_fields if ...], in the order of required_fields
MissingFields(data) ==
    SelectSeq(RequiredFields, LAMBDA field : FieldMissing(data, field))

\* ', '.join(missing_fields)
RECURSIVE Join(_)
Join(names) ==
    IF names = <<>> THEN <<>>
    ELSE IF Len(names) = 1 THEN names
    ELSE <<Head(names), ", ">> \o Join(Tail(names))

\* the f-string prompt
Prompt(data) ==
    <<"Generate a ">> \o PyStr(Get(data, "tone"))
        \o <<" social media post for a ">> \o PyStr(Get(data, "age"))
        \o <<"-year-old from ">> \o PyStr(Get(data, "state"))
        \o <<", ">> \o PyStr(Get(data, "country"))
        \o <<", interested in ">> \o PyStr(Get(data, "interests"))
        \o <<". The perspective should be ">> \o PyStr(Get(data, "perspective"))
        \o <<". Start with: \"">> \o PyStr(Get(data, "hookline")) \o <<"\"">>

\* the inner try of generate: int(age) and the range check
ValidateAge(age) ==
    LET parsed == PyInt(age)
    IN  IF parsed.ok
        THEN IF parsed.n < AgeMin \/ parsed.n > AgeMax
             THEN Returned(Failure(400, <<"Age must be between 1 and 120">>))
             ELSE Returned(Failure(0, <<>>))
        ELSE IF IsInstance(parsed.exc, "ValueError")
             THEN Returned(Failure(400, <<"Age must be a valid number">>))
             ELSE Raised(parsed.exc, parsed.msg)

AgePassed(res) == res.t = "return" /\ res.resp.status = 0

\* generate(), from its first line to the collaborator call
GenerateTry(body, strict) ==
    LET json == GetJson(body, strict)
        missing == MissingFields(body.data)
        age == ValidateAge(Get(body.data, "age"))
    IN  IF json.t = "raise" THEN json
        ELSE IF DataIsNone(body) THEN Returned(Failure(400, <<"No JSON data received">>))
        ELSE IF body.kind # "object" THEN NoGetAttribute(body)
        ELSE IF missing # <<>>
             THEN Returned(Failure(400, <<"Missing required fields: ">> \o Join(missing)))
        ELSE IF ~AgePassed(age) THEN age
        ELSE Calling(Prompt(body.data))

\* A collaborator's answer: ok with a value, or an exception.  The
\* generation service answers with message content (text, or None); the
\* publishing service answers with a tweet id.
Answer(ok, content, id, exc, msg) ==
    [ok |-> ok, content |-> content, id |-> id, exc |-> exc, msg |-> msg]

\* generate(), from the collaborator's answer to the success response
GenerateAfterCall(prompt, ans) ==
    IF ~ans.ok THEN Raised(ans.exc, ans.msg)
    ELSE IF ans.content.t # "str"
         THEN Raised("AttributeError", "'NoneType' object has no attribute 'strip'")
    ELSE Returned(Response(200, TRUE, <<>>, prompt, Strip(ans.content.s), 0))

\* the except clauses of generate() with the openai.APIError clause left out
GenerateExceptGeneric(res) ==
    IF res.t = "raise" /\ IsInstance(res.exc, "Exception")
    THEN Returned(Failure(500, <<"Server error: ", res.msg>>))
    ELSE res

\* the except clauses of generate()
GenerateExcept(res) ==
    IF res.t # "raise" THEN res
    ELSE IF IsInstance(res.exc, "APIError")
         THEN Returned(Failure(500, <<"OpenAI API error: ", res.msg>>))
    ELSE IF IsInstance(res.exc, "Exception")
         THEN Returned(Failure(500, <<"Server error: ", res.msg>>))
    ELSE res

\* the length test written >= instead of >
TruncateAtLimit(text) ==
    IF Len(text) >= TweetLimit
    THEN SubSeq(text, 1, TruncateAt) \o <<".", ".", ".">>
    ELSE text

\* if len(post_text) > 280: post_text = post_text[:277] + "..."
Truncate(text) ==
    IF Len(text) > TweetLimit
    THEN SubSeq(text, 1, TruncateAt) \o <<".", ".", ".">>
    ELSE text

\* post_to_twitter(), from its first line to the collaborator call
PublishTry(body, strict) ==
    LET json == GetJson(body, strict)
        post_text == Get(body.data, "post")
    IN  IF json.t = "raise" THEN json
        ELSE IF DataIsNone(body) THEN Returned(Failure(400, <<"No JSON data received">>))
        ELSE IF body.kind # "object" THEN NoGetAttribute(body)
        ELSE IF ~Truthy(post_text) THEN Returned(Failure(400, <<"No post text provided">>))
        ELSE IF post_text.t # "str"
             THEN Raised("AttributeError", "'int' object has no attribute 'strip'")
        ELSE IF Strip(post_text.s) = <<>>
             THEN Returned(Failure(400, <<"No post text provided">>))
        ELSE Calling(Truncate(post_text.s))

\* post_to_twitter(), from the collaborator's answer to the success response
PublishAfterCall(ans) ==
    IF ~ans.ok THEN Raised(ans.exc, ans.msg)
    ELSE Returned(Response(200, TRUE, <<>>, <<>>, <<>>, ans.id))

\* the inner except clause of post_to_twitter(), around the collaborator call
PublishExceptInner(res) ==
    IF res.t = "raise" /\ IsInstance(res.exc, "TweepyException")
    THEN Returned(Failure(500, <<"Twitter posting failed: ", res.msg>>))
    ELSE res

\* post_to_twitter() without its outer try
PublishExceptNone(res) == res

\* the outer except clause of post_to_twitter()
PublishExcept(res) ==
    IF res.t = "raise" /\ IsInstance(res.exc, "Exception")
    THEN Returned(Failure(500, <<"Server error: ", res.msg>>))
    ELSE res

\* ------------------------------------------------------------------------
\* Inputs offered to the handlers
\* ------------------------------------------------------------------------
Rep(len, c) == [i \in 1..len |-> c]

\* a well-formed value for each field of a generation request
GoodValue(field) == IF field = "age" THEN JInt(25) ELSE JStr(<<"<", field, ">">>)
GoodData == [field \in FieldSet |-> GoodValue(field)]

\* the ways a field can be left out or left blank
BlankStyles == {"omitted", "null", "empty", "blank"}
BlankValue(style) ==
    CASE style = "null" -> None
      [] style = "empty" -> JStr(<<>>)
      [] style = "blank" -> JStr(<<" ", "\t", " ">>)

\* GoodData with the fields of `blanked` left out in the given style and
\* the age (when it is not blanked) replaced by `age`
DataWith(blanked, style, age) ==
    [field \in (IF style = "omitted" THEN FieldSet \ blanked ELSE FieldSet) |->
        IF field \in blanked THEN BlankValue(style)
        ELSE IF field = "age" THEN age
        ELSE GoodValue(field)]

AgeTexts ==
    {<<"a", "b", "c">>, <<"2", "5", ".", "5">>, <<"+", "7">>, <<"-", "3">>,
     <<" ", "4", "2", "\n">>, <<"1", "2", "x">>, <<"-">>, <<"0">>, <<"0", "0", "7">>}

AgeValues ==
    {JInt(k) : k \in -1..MaxAge}
        \cup {JStr(IntStr(k)) : k \in -1..MaxAge}
        \cup {JStr(chars) : chars \in AgeTexts}
        \cup {JFloat(k, frac) : k \in {0, 1, 25, 120, 121}, frac \in BOOLEAN}
        \cup {JBool(TRUE), JBool(FALSE), JList(0), JList(1), JList(2)}

AgeSample == {JInt(25), JInt(0), JInt(200), JStr(<<"a", "b", "c">>), JList(1)}

OtherValues == {JInt(0), JInt(5), JBool(FALSE), JBool(TRUE), JList(0), JList(1),
                JFloat(0, FALSE), JFloat(1, TRUE)}

NonObjectBodies == {Body(kind, <<>>) : kind \in {"malformed", "wrongtype", "null", "scalar", "list"}}

GenerateBodies ==
    NonObjectBodies
        \cup {Body("object", DataWith({}, "empty", age)) : age \in AgeValues}
        \cup {Body("object", DataWith(blanked, style, age)) :
                blanked \in (SUBSET FieldSet) \ {{}}, style \in BlankStyles, age \in AgeSample}
        \cup {Body("object", [GoodData EXCEPT ![field] = v]) :
                field \in FieldSet, v \in OtherValues}

\* post texts: short ones and ones around the length limit, in four shapes
TextLengths == (0..3) \cup ((TruncateAt - 1)..MaxTextLen)
TextShapes == {"blank", "plain", "padded", "striped"}
Text(len, shape) ==
    [i \in 1..len |->
        CASE shape = "blank" -> " "
          [] shape = "plain" -> "a"
          [] shape = "padded" -> IF i = 1 \/ i = len THEN " " ELSE "a"
          [] shape = "striped" -> IF i % 3 = 0 THEN "." ELSE IF i % 3 = 1 THEN "a" ELSE " "]

PostValues ==
    {JStr(Text(len, shape)) : len \in TextLengths, shape \in TextShapes}
        \cup OtherValues \cup {None}

PublishBodies ==
    NonObjectBodies
        \cup {Body("object", <<>>)}
        \cup {Body("object", [key \in {"post"} |-> v]) : v \in PostValues}

\* the small input sets of the concurrent specification
FewGenerateBodies ==
    {Body("null", <<>>), Body("list", <<>>),
     Body("object", DataWith({"tone"}, "omitted", JInt(25))),
     Body("object", DataWith({}, "empty", JStr(<<"a", "b", "c">>))),
     Body("object", DataWith({}, "empty", JList(1))),
     Body("object", DataWith({}, "empty", JInt(25))),
     Body("object", DataWith({}, "empty", JStr(<<"3", "0">>)))}

FewPublishBodies ==
    {Body("null", <<>>), Body("malformed", <<>>),
     Body("object", [key \in {"post"} |-> JStr(<<>>)]),
     Body("object", [key \in {"post"} |-> JInt(5)]),
     Body("object", [key \in {"post"} |-> JStr(<<"h", "i">>)]),
     Body("object", [key \in {"post"} |-> JStr(<<" ", "y", "o", " ">>)])}

\* what the generation service may answer
GenerationAnswers ==
    {Answer(TRUE, JStr(<<" ", "H", "i", "!", "\n">>), 0, "", ""),
     Answer(TRUE, JStr(<<"Y", "o">>), 0, "", ""),
     Answer(TRUE, None, 0, "", ""),
     Answer(FALSE, None, 0, "APIError", "model overloaded"),
     Answer(FALSE, None, 0, "RateLimitError", "rate limit reached"),
     Answer(FALSE, None, 0, "RuntimeError", "boom")}

\* what the publishing service may answer
PublishAnswers ==
    {Answer(TRUE, None, 101, "", ""),
     Answer(TRUE, None, 102, "", ""),
     Answer(FALSE, None, 0, "TweepyException", "Failed to send request"),
     Answer(FALSE, None, 0, "Forbidden", "403 Forbidden: duplicate status"),
     Answer(FALSE, None, 0, "RuntimeError", "boom")}

\* ------------------------------------------------------------------------
\* State
\* ------------------------------------------------------------------------
VARIABLES
    strict,     \* whether this Flask rejects a non-JSON content type by raising
    pc,         \* per request: "idle", "calling", "done" or "raised"
    op,         \* per request: "none", "generate" or "publish"
    body,       \* per request: the body it arrived with
    sent,       \* per request: what it has passed to its collaborator, in order
    answer,     \* per request: the collaborator's answers to it, in order
    response,   \* per request: the responses it has returned, in order
    upstream    \* the collaborators' side: every call received, in order

vars == <<strict, pc, op, body, sent, answer, response, upstream>>

Requests == 1..NumRequests

Init ==
    /\ strict \in BOOLEAN
    /\ pc = [r \in Requests |-> "idle"]
    /\ op = [r \in Requests |-> "none"]
    /\ body = [r \in Requests |-> NoBody]
    /\ sent = [r \in Requests |-> <<>>]
    /\ answer = [r \in Requests |-> <<>>]
    /\ response = [r \in Requests |-> <<>>]
    /\ upstream = <<>>

\* The handler of request r has run up to `res`: it has returned a response,
\* it has issued its collaborator call and waits for the answer, or it has
\* let an exception escape.
Advance(r, service, res) ==
    /\ pc' = [pc EXCEPT ![r] =
                CASE res.t = "return" -> "done"
                  [] res.t = "call" -> "calling"
                  [] res.t = "raise" -> "raised"]
    /\ response' = [response EXCEPT ![r] =
                IF res.t = "return" THEN Append(@, res.resp) ELSE @]
    /\ sent' = [sent EXCEPT ![r] = IF res.t = "call" THEN Append(@, res.arg) ELSE @]
    /\ upstream' = IF res.t = "call"
                   THEN Append(upstream, [service |-> service, text |-> res.arg])
                   ELSE upstream

\* generate() with the collaborator call placed ahead of the age check
GenerateCallsFirst(r, b) ==
    LET res == GenerateExcept(GenerateTry(b, strict))
        early == res.t = "return" /\ res.resp.error # <<>>
                    /\ res.resp.error[1] = "Age must be between 1 and 120"
    IN  /\ pc[r] = "idle"
        /\ op' = [op EXCEPT ![r] = "generate"]
        /\ body' = [body EXCEPT ![r] = b]
        /\ pc' = [pc EXCEPT ![r] = IF res.t = "call" THEN "calling" ELSE "done"]
        /\ response' = [response EXCEPT ![r] = IF res.t = "return" THEN Append(@, res.resp) ELSE @]
        /\ sent' = [sent EXCEPT ![r] =
                        IF res.t = "call" THEN Append(@, res.arg)
                        ELSE IF early THEN Append(@, Prompt(b.data)) ELSE @]
        /\ upstream' = IF res.t = "call" \/ early
                       THEN Append(upstream, [service |-> "openai", text |-> Prompt(b.data)])
                       ELSE upstream
        /\ UNCHANGED <<strict, answer>>

\* POST /generate arrives with body b and runs until it returns or blocks in
\* openai.chat.completions.create
Generate(r, b) ==
    /\ pc[r] = "idle"
    /\ op' = [op EXCEPT ![r] = "generate"]
    /\ body' = [body EXCEPT ![r] = b]
    /\ Advance(r, "openai", GenerateExcept(GenerateTry(b, strict)))
    /\ UNCHANGED <<strict, answer>>

\* generate() answering from a module-level variable that holds the latest
\* completion any request received
GenerationAnswerShared(r, ans) ==
    LET others == {q \in Requests : q # r /\ answer[q] # <<>>}
        latest == IF others = {} THEN ans ELSE answer[CHOOSE q \in others : TRUE][1]
    IN  /\ pc[r] = "calling"
        /\ op[r] = "generate"
        /\ answer' = [answer EXCEPT ![r] = Append(@, ans)]
        /\ Advance(r, "openai", GenerateExcept(GenerateAfterCall(sent[r][Len(sent[r])], latest)))
        /\ UNCHANGED <<strict, op, body>>

\* openai.chat.completions.create returns or raises; generate() runs to its end
GenerationAnswer(r, ans) ==
    /\ pc[r] = "calling"
    /\ op[r] = "generate"
    /\ answer' = [answer EXCEPT ![r] = Append(@, ans)]
    /\ Advance(r, "openai", GenerateExcept(GenerateAfterCall(sent[r][Len(sent[r])], ans)))
    /\ UNCHANGED <<strict, op, body>>

\* POST /post-to-twitter arrives with body b and runs until it returns or
\* blocks in twitter_api.update_status
Publish(r, b) ==
    /\ pc[r] = "idle"
    /\ op' = [op EXCEPT ![r] = "publish"]
    /\ body' = [body EXCEPT ![r] = b]
    /\ Advance(r, "twitter", PublishExcept(PublishTry(b, strict)))
    /\ UNCHANGED <<strict, answer>>

\* post_to_twitter() calling update_status a second time when the first fails
PublishAnswerRetry(r, ans) ==
    /\ pc[r] = "calling"
    /\ op[r] = "publish"
    /\ answer' = [answer EXCEPT ![r] = Append(@, ans)]
    /\ IF ~ans.ok /\ Len(sent[r]) = 1
       THEN Advance(r, "twitter", Calling(sent[r][1]))
       ELSE Advance(r, "twitter", PublishExcept(PublishExceptInner(PublishAfterCall(ans))))
    /\ UNCHANGED <<strict, op, body>>

\* twitter_api.update_status returns or raises; post_to_twitter() runs to its end
PublishAnswer(r, ans) ==
    /\ pc[r] = "calling"
    /\ op[r] = "publish"
    /\ answer' = [answer EXCEPT ![r] = Append(@, ans)]
    /\ Advance(r, "twitter", PublishExcept(PublishExceptInner(PublishAfterCall(ans))))
    /\ UNCHANGED <<strict, op, body>>

\* Concurrent requests, few inputs
Next ==
    \E r \in Requests :
        \/ \E b \in FewGenerateBodies : Generate(r, b)
        \/ \E ans \in GenerationAnswers : GenerationAnswer(r, ans)
        \/ \E b \in FewPublishBodies : Publish(r, b)
        \/ \E ans \in PublishAnswers : PublishAnswer(r, ans)

Spec == Init /\ [][Next]_vars

\* One request, every input
NextOne ==
    \/ \E b \in GenerateBodies : Generate(1, b)
    \/ \E ans \in GenerationAnswers : GenerationAnswer(1, ans)
    \/ \E b \in PublishBodies : Publish(1, b)
    \/ \E ans \in PublishAnswers : PublishAnswer(1, ans)

SpecOne == Init /\ [][NextOne]_vars

\* ------------------------------------------------------------------------
\* Vocabulary of the properties
\* ------------------------------------------------------------------------
\* the error taxonomy, read off a response's success flag and message
Kind(resp) ==
    CASE resp.success -> "Success"
      [] resp.error = <<>> -> "Unstructured"
      [] resp.error[1] = "No JSON data received" -> "InvalidPayload"
      [] resp.error[1] = "Missing required fields: " -> "MissingFields"
      [] resp.error[1] = "No post text provided" -> "MissingText"
      [] resp.error[1] \in {"Age must be between 1 and 120", "Age must be a valid number"} ->
            "InvalidAge"
      [] resp.error[1] = "OpenAI API error: " -> "GenerationServiceError"
      [] resp.error[1] = "Twitter posting failed: " -> "PublishServiceError"
      [] resp.error[1] = "Server error: " -> "InternalError"
      [] OTHER -> "Unstructured"

ValidationKinds == {"InvalidPayload", "MissingFields", "MissingText", "InvalidAge"}

Done(r) == pc[r] = "done" /\ Len(response[r]) = 1
Result(r) == response[r][1]
Started(r, service) == pc[r] # "idle" /\ op[r] = service

\* a field that is absent from the object, null, or text that is blank
\* after trimming
AbsentOrBlank(data, field) ==
    \/ field \notin DOMAIN data
    \/ data[field].t = "null"
    \/ data[field].t = "str" /\ \A i \in 1..Len(data[field].s) : data[field].s[i] \in Whitespace

BlankFields(data) == {field \in FieldSet : AbsentOrBlank(data, field)}

\* the field names a MissingFields message lists
NamedFields(resp) == {resp.error[i] : i \in 2..Len(resp.error)} \cap FieldSet

\* an age that is an integer in [1,120]: a whole number, or the decimal text
\* of one
IntegerInRange(age) ==
    \/ age.t = "int" /\ age.n >= 1 /\ age.n <= 120
    \/ age.t = "float" /\ ~age.f /\ age.n >= 1 /\ age.n <= 120
    \/ age.t = "str" /\ ParseInt(age.s).ok /\ ParseInt(age.s).n >= 1 /\ ParseInt(age.s).n <= 120

\* a post that is text with something other than whitespace in it
NonBlankText(data) ==
    /\ "post" \in DOMAIN data
    /\ data["post"].t = "str"
    /\ \E i \in 1..Len(data["post"].s) : data["post"].s[i] \notin Whitespace

\* a request that meets the documented contract of its operation
ValidRequest(service, b) ==
    /\ b.kind = "object"
    /\ service = "generate" => BlankFields(b.data) = {} /\ IntegerInRange(b.data["age"])
    /\ service = "publish" => NonBlankText(b.data)

\* an exception of the collaborator's own error class
UpstreamError(service, exc) ==
    IF service = "generate" THEN IsInstance(exc, "APIError") ELSE IsInstance(exc, "TweepyException")

\* ------------------------------------------------------------------------
\* C1
\* ------------------------------------------------------------------------
\* C1: a generate request with an object payload in which some required
\* field is absent or blank ends as MissingFields naming exactly the absent
\* or blank fields, whatever the age; one in which all seven fields are
\* present and non-blank never ends as MissingFields.
C1_MissingFieldsExact ==
    \A r \in Requests :
        Started(r, "generate") /\ body[r].kind = "object" =>
            IF BlankFields(body[r].data) # {}
            THEN /\ Done(r)
                 /\ Kind(Result(r)) = "MissingFields"
                 /\ NamedFields(Result(r)) = BlankFields(body[r].data)
            ELSE ~(Done(r) /\ Kind(Result(r)) = "MissingFields")

\* ------------------------------------------------------------------------
\* C2
\* ------------------------------------------------------------------------
\* C2: a generate request whose seven fields are all present and non-blank
\* ends as InvalidAge when its age is not an integer in [1,120] (too small,
\* too large, non-numeric text, a number with a fraction, a list) and
\* passes validation, reaching the collaborator call, when it is one.
\* Booleans are left undecided.
C2_AgeValidation ==
    \A r \in Requests :
        /\ Started(r, "generate")
        /\ body[r].kind = "object"
        /\ BlankFields(body[r].data) = {}
        /\ body[r].data["age"].t # "bool"
        => IF IntegerInRange(body[r].data["age"])
           THEN Len(sent[r]) = 1
           ELSE Done(r) /\ Kind(Result(r)) = "InvalidAge"

\* ------------------------------------------------------------------------
\* C3
\* ------------------------------------------------------------------------
\* C3: a request of either operation that has ended with a validation error
\* (InvalidPayload, MissingFields, MissingText, InvalidAge) has passed
\* nothing to a collaborator at any point, and no collaborator has received
\* a call.
C3_FailFast ==
    \A r \in Requests :
        Done(r) /\ Kind(Result(r)) \in ValidationKinds =>
            sent[r] = <<>> /\ answer[r] = <<>> /\ upstream = <<>>

\* an age above the range has been rejected with nothing sent
C3_Witness ==
    \E r \in Requests :
        /\ Done(r)
        /\ op[r] = "generate"
        /\ Result(r).error = <<"Age must be between 1 and 120">>
        /\ body[r].data["age"] = JInt(121)
        /\ sent[r] = <<>>

\* ------------------------------------------------------------------------
\* C4
\* ------------------------------------------------------------------------
\* C4: the text a publish request forwards to the collaborator is its post
\* unmodified when the post is at most 280 long, and otherwise the first 277
\* units of the post followed by "...", 280 long in all; nothing longer than
\* 280 is ever forwarded.
C4_LengthPolicy ==
    \A r \in Requests :
        op[r] = "publish" /\ sent[r] # <<>> =>
            LET text == body[r].data["post"].s
                forwarded == sent[r][1]
            IN  /\ Len(forwarded) <= 280
                /\ Len(text) <= 280 => forwarded = text
                /\ Len(text) > 280 =>
                      /\ Len(forwarded) = 280
                      /\ SubSeq(forwarded, 1, 277) = SubSeq(text, 1, 277)
                      /\ SubSeq(forwarded, 278, 280) = <<".", ".", ".">>

\* a post of 281 units has been forwarded
C4_Witness ==
    \E r \in Requests :
        /\ op[r] = "publish"
        /\ sent[r] # <<>>
        /\ Len(body[r].data["post"].s) = 281
        /\ Len(sent[r][1]) = 280

\* ------------------------------------------------------------------------
\* C5
\* ------------------------------------------------------------------------
\* C5: a publish request with an object payload whose post is absent, empty,
\* blank or not text ends as MissingText without a collaborator call; one
\* whose post is non-blank text passes validation.
C5_MissingText ==
    \A r \in Requests :
        Started(r, "publish") /\ body[r].kind = "object" =>
            IF NonBlankText(body[r].data)
            THEN Len(sent[r]) = 1
            ELSE Done(r) /\ Kind(Result(r)) = "MissingText" /\ sent[r] = <<>>

\* ------------------------------------------------------------------------
\* C6
\* ------------------------------------------------------------------------
\* C6: a request of either operation whose body is not a JSON object
\* (malformed, wrong content type, null, a scalar, a list) ends as
\* InvalidPayload with a client-error status, not as InternalError.
C6_InvalidPayload ==
    \A r \in Requests :
        pc[r] # "idle" /\ body[r].kind # "object" =>
            Done(r) /\ Kind(Result(r)) = "InvalidPayload" /\ Result(r).status = 400

\* ------------------------------------------------------------------------
\* C7
\* ------------------------------------------------------------------------
\* C7: when the collaborator call of a request raises, the request ends
\* with a failure response; if the exception is of the collaborator's error
\* class the response is GenerationServiceError (generate) or
\* PublishServiceError (publish) and its text carries the exception's
\* message; InternalError never reports an exception of that class.
C7_UpstreamFailure ==
    \A r \in Requests :
        answer[r] # <<>> /\ ~answer[r][1].ok =>
            /\ Done(r)
            /\ ~Result(r).success
            /\ Result(r).status = 500
            /\ \E i \in 2..Len(Result(r).error) : Result(r).error[i] = answer[r][1].msg
            /\ IF UpstreamError(op[r], answer[r][1].exc)
               THEN Kind(Result(r)) =
                        (IF op[r] = "generate" THEN "GenerationServiceError"
                                               ELSE "PublishServiceError")
               ELSE Kind(Result(r)) = "InternalError"

\* each operation has reported a failure of a subclass of its collaborator's
\* error class
C7_Witness ==
    \E r \in Requests :
        /\ Done(r)
        /\ answer[r] # <<>>
        /\ \/ op[r] = "generate" /\ answer[r][1].exc = "RateLimitError"
                /\ Result(r).error = <<"OpenAI API error: ", "rate limit reached">>
           \/ op[r] = "publish" /\ answer[r][1].exc = "Forbidden"
                /\ Result(r).error = <<"Twitter posting failed: ", "403 Forbidden: duplicate status">>

\* ------------------------------------------------------------------------
\* C8
\* ------------------------------------------------------------------------
\* C8: no request lets an exception escape its handler; a request that has
\* ended has returned exactly one response, which is either a success
\* returned after its collaborator call succeeded or a failure with the
\* success flag false, an error status and an error message of the
\* taxonomy; a request that has not ended has returned nothing.
C8_StructuredResponse ==
    \A r \in Requests :
        /\ pc[r] \in {"idle", "calling", "done"}
        /\ pc[r] # "done" => response[r] = <<>>
        /\ pc[r] = "done" =>
              /\ Len(response[r]) = 1
              /\ IF Result(r).success
                 THEN /\ Result(r).status = 200
                      /\ Len(sent[r]) = 1
                      /\ Len(answer[r]) = 1
                      /\ answer[r][1].ok
                 ELSE /\ Result(r).status \in {400, 500}
                      /\ Result(r).error # <<>>
                      /\ Kind(Result(r)) # "Unstructured"

\* an exception raised inside a handler has been turned into a response
C8_Witness ==
    \E r \in Requests :
        /\ Done(r)
        /\ op[r] = "publish"
        /\ body[r].kind = "object"
        /\ Kind(Result(r)) = "InternalError"
        /\ sent[r] = <<>>

\* ------------------------------------------------------------------------
\* C9
\* ------------------------------------------------------------------------
\* C9: a request makes one collaborator call if it is valid and none
\* otherwise, never a second one, also after the call failed; the
\* collaborators have received one call per such request, so that as many
\* publish calls carry a given text as there are requests that forwarded it.
C9_SingleAttempt ==
    /\ \A r \in Requests :
          /\ Len(sent[r]) <= 1
          /\ Len(answer[r]) <= Len(sent[r])
          /\ pc[r] # "idle" =>
                (ValidRequest(op[r], body[r]) <=> Len(sent[r]) = 1)
          /\ pc[r] = "calling" => Len(sent[r]) = 1 /\ answer[r] = <<>>
    /\ Len(upstream) = Cardinality({r \in Requests : sent[r] # <<>>})
    /\ \A r \in Requests :
          op[r] = "publish" /\ sent[r] # <<>> =>
              Cardinality({i \in DOMAIN upstream :
                              upstream[i] = [service |-> "twitter", text |-> sent[r][1]]})
                  = Cardinality({q \in Requests : op[q] = "publish" /\ sent[q] = sent[r]})

\* two publish requests with the same text have both been published, one of
\* them for a request whose call then failed
C9_Witness ==
    \E r, q \in Requests :
        /\ r # q
        /\ op[r] = "publish" /\ op[q] = "publish"
        /\ body[r] = body[q]
        /\ Done(r) /\ Done(q)
        /\ answer[r] # <<>> /\ ~answer[r][1].ok
        /\ answer[q] # <<>> /\ answer[q][1].ok
        /\ Len(upstream) = 2
        /\ upstream[1] = upstream[2]

\* ------------------------------------------------------------------------
\* C10
\* ------------------------------------------------------------------------
\* a request's answer came from a collaborator that responded with a result
Responded(r) ==
    /\ Len(answer[r]) = 1
    /\ answer[r][1].ok
    /\ op[r] = "generate" => answer[r][1].content.t = "str"

\* requests of the same operation with the same body and the same answer
\* have the same result, and a valid request whose collaborator responded
\* has succeeded, whatever the other requests did
Isolated ==
    /\ \A r, q \in Requests :
          /\ Done(r) /\ Done(q)
          /\ op[r] = op[q] /\ body[r] = body[q] /\ answer[r] = answer[q]
          => response[r] = response[q]
    /\ \A r \in Requests :
          pc[r] # "idle" /\ ValidRequest(op[r], body[r]) =>
              /\ pc[r] = "calling" \/ (Done(r) /\ Len(answer[r]) = 1)
              /\ Done(r) /\ Responded(r) => Result(r).success

\* a step changes what one request holds and nothing of any other
OneRequestPerStep ==
    \E r \in Requests : \A q \in Requests \ {r} :
        /\ pc'[q] = pc[q] /\ op'[q] = op[q] /\ body'[q] = body[q]
        /\ sent'[q] = sent[q] /\ answer'[q] = answer[q] /\ response'[q] = response[q]

\* C10: under any interleaving, the result of a request is determined by
\* its own payload and its own collaborator answer, a valid request with a
\* responding collaborator succeeds whatever happened to other requests,
\* and no step of one request changes what another request holds.
C10_Isolation == []Isolated /\ [][OneRequestPerStep]_vars

\* of two requests with the same operation and body, one has failed
\* upstream and the other has succeeded
C10_Witness ==
    \E r, q \in Requests :
        /\ r # q
        /\ Done(q) /\ ~Result(q).success /\ answer[q] # <<>>
        /\ Done(r) /\ Result(r).success
        /\ op[r] = op[q] /\ body[r] = body[q]

====
